---- MODULE Spec2Model ----
(***************************************************************************)
(* simplecrypt: password-based authenticated encryption.                   *)
(*   encrypt(password, data) -> PREFIX || salt || AES-CTR(data) || HMAC    *)
(*   decrypt(password, data) -> plaintext, after length, prefix and HMAC   *)
(*   checks.                                                               *)
(* Byte strings are sequences of 0..255.  Python text is a sequence of     *)
(* code points.  The library primitives (PBKDF2, HMAC-SHA256, SHA256,      *)
(* AES) are replaced by small deterministic functions of the same shape    *)
(* (same argument and result lengths); they detect every single-byte       *)
(* change of their input, which is the property the envelope relies on.    *)
(* AES.block_size is 16 in the library; the model runs the same formulas   *)
(* with 2-byte blocks so that a message of 2**HALF_BLOCK bytes exists.     *)
(***************************************************************************)
EXTENDS Integers, Sequences, FiniteSets, TLC

VARIABLES
    pc,           \* position of the running call
    op,           \* "none", "encrypt" or "decrypt"
    password,     \* argument: text, a sequence of code points
    data,         \* argument: bytes
    salt, key, encrypted, hmac, hmac2,   \* locals of the running call
    counters,     \* the counter blocks the cipher of the running call consumed
    result,       \* what the call returned or raised
    steps,        \* the statements of the running call that completed
    envelope,     \* what the last encrypt returned
    encPassword, encData, encCounters,   \* arguments and counter blocks of that encrypt
    tamper        \* what the caller did to the envelope before decrypt

vars == <<pc, op, password, data, salt, key, encrypted, hmac, hmac2, counters,
          result, steps, envelope, encPassword, encData, encCounters, tamper>>

locals == <<salt, key, encrypted, hmac, hmac2, counters>>
history == <<envelope, encPassword, encData, encCounters>>

(* ---------------- module constants (src lines 11-18) ------------------ *)
EXPANSION_COUNT == 1000
AES_KEY_LEN == 256
SALT_LEN == 128
HASH_digest_size == 32
PREFIX == <<115, 99, 0, 0>>

(* ---------------- bounds of the model --------------------------------- *)
\* longest of the short messages
MaxLen == 2
\* number of salts the random source may draw
NumSalts == 2
\* AES.block_size in bytes, scaled down from the library's 16 so that
\* messages of 2**HALF_BLOCK bytes can be built
AES_block_size == 2

\* line 18
HALF_BLOCK == (AES_block_size * 8) \div 2
\* Counter.new is called without initial_value; the library's default is 1
Counter_initial_value == 1

(* ---------------- Python byte-string helpers -------------------------- *)
Byte == 0..255

Min(a, b) == IF a < b THEN a ELSE b
Max(a, b) == IF a > b THEN a ELSE b

\* Python's slice index normalisation: negative counts from the end, clamp.
PyIndex(n, i) == IF i < 0 THEN Max(n + i, 0) ELSE Min(i, n)

\* s[start:stop]
PySlice(s, start, stop) ==
    LET a == PyIndex(Len(s), start)
        b == PyIndex(Len(s), stop)
    IN IF a < b THEN SubSeq(s, a + 1, b) ELSE <<>>

\* s[start:]
PyFrom(s, start) ==
    LET a == PyIndex(Len(s), start)
    IN IF a < Len(s) THEN SubSeq(s, a + 1, Len(s)) ELSE <<>>

\* s[:stop]
PyTo(s, stop) == PySlice(s, 0, stop)

Bit(a, k) == (a \div (2^k)) % 2

Xor8(a, b) ==
      ((Bit(a, 0) + Bit(b, 0)) % 2)
    + ((Bit(a, 1) + Bit(b, 1)) % 2) * 2
    + ((Bit(a, 2) + Bit(b, 2)) % 2) * 4
    + ((Bit(a, 3) + Bit(b, 3)) % 2) * 8
    + ((Bit(a, 4) + Bit(b, 4)) % 2) * 16
    + ((Bit(a, 5) + Bit(b, 5)) % 2) * 32
    + ((Bit(a, 6) + Bit(b, 6)) % 2) * 64
    + ((Bit(a, 7) + Bit(b, 7)) % 2) * 128

\* str.encode('utf8') for code points below 0x800
RECURSIVE encode_utf8(_)
encode_utf8(text) ==
    IF text = <<>> THEN <<>>
    ELSE LET c == Head(text)
         IN (IF c < 128 THEN <<c>>
             ELSE <<192 + (c \div 64), 128 + (c % 64)>>)
            \o encode_utf8(Tail(text))

(* ---------------- library primitives ---------------------------------- *)
\* Position-weighted checksum modulo the prime 65521: changing one byte
\* changes it (weight and difference are both non-zero and below the prime).
RECURSIVE WSum(_, _, _)
WSum(s, lo, hi) ==
    IF lo > hi THEN 0
    ELSE IF lo = hi THEN ((lo % 251) + 1) * (s[lo] + 1)
    ELSE LET mid == (lo + hi) \div 2
         IN (WSum(s, lo, mid) + WSum(s, mid + 1, hi)) % 65521

Checksum(s) == WSum(s, 1, Len(s))

\* the four bytes a pair of checksums is spread over
Spread(a, b, k) ==
    LET r == k % 4
    IN IF r = 1 THEN a % 256
       ELSE IF r = 2 THEN a \div 256
       ELSE IF r = 3 THEN b % 256
       ELSE b \div 256

\* PBKDF2(password, salt, dkLen, count, prf): dkLen bytes, a function of
\* password and salt.
PBKDF2(pw, s, dkLen, count) ==
    LET hp == Checksum(pw)
        hs == Checksum(s)
    IN [k \in 1..dkLen |-> (Spread(hp, hs, k) + count + k) % 256]

\* HMAC.new(key, msg, SHA256).digest(): digest_size bytes, a function of
\* key and msg.
HMAC_digest(k, msg) ==
    LET hm == Checksum(msg)
    IN [i \in 1..HASH_digest_size |->
          (k[((i - 1) % Len(k)) + 1]
           + (IF i % 2 = 1 THEN hm % 256 ELSE hm \div 256)) % 256]

\* SHA256.new(data).digest(): digest_size bytes.
SHA256_digest(d) ==
    [i \in 1..HASH_digest_size |->
        IF d = <<>> THEN (i * 7) % 256
        ELSE (7 * d[((i - 1) % Len(d)) + 1] + i + Len(d)) % 256]

\* One AES block encryption of a counter block (nonce prefix, counter value).
AES_block(k, prefix, ctr) ==
    LET h == Checksum(k) + Checksum(prefix)
    IN [j \in 1..AES_block_size |-> (h + 31 * ctr + 17 * j) % 256]

(* ---------------- Counter.new(HALF_BLOCK, prefix=...) ----------------- *)
\* The counter block of the i-th cipher block (i = 0, 1, ...): the prefix
\* followed by an nbits-bit counter, which Counter.new starts at its default
\* initial_value and steps by one per block.
CounterBlock(nbits, prefix, i) ==
    [prefix |-> prefix, ctr |-> (Counter_initial_value + i) % (2^nbits)]

\* the counter blocks a message of n bytes consumes, in order
CounterBlocks(nbits, prefix, n) ==
    [b \in 1..((n + AES_block_size - 1) \div AES_block_size) |->
        CounterBlock(nbits, prefix, b - 1)]

\* AES.new(key, MODE_CTR, counter).encrypt(d) and .decrypt(d): xor with the
\* key stream of the successive counter blocks.
CTR_crypt(k, nbits, prefix, d) ==
    LET blocks == CounterBlocks(nbits, prefix, Len(d))
        ks(b) == AES_block(k, blocks[b].prefix, blocks[b].ctr)
    IN [i \in 1..Len(d) |->
          Xor8(d[i], ks(((i - 1) \div AES_block_size) + 1)[((i - 1) % AES_block_size) + 1])]

(* ---------------- results and exceptions ------------------------------ *)
NoResult == [kind |-> "none", exc |-> "", msg |-> "", value |-> <<>>]
Returned(v) == [kind |-> "ok", exc |-> "", msg |-> "", value |-> v]
Raised(e, m) == [kind |-> "error", exc |-> e, msg |-> m, value |-> <<>>]

MinEnvelope == Len(PREFIX) + (SALT_LEN \div 8) + HASH_digest_size

(* ---------------- the private helpers (src lines 73-101) -------------- *)
_assert_encrypt_length(d) ==
    IF Len(d) > 2^HALF_BLOCK
    THEN Raised("EncryptionException", "Message too long")
    ELSE NoResult

\* mutant: the comparison is <= instead of <
_assert_decrypt_length_le(d) ==
    IF Len(d) <= Len(PREFIX) + (SALT_LEN \div 8) + HASH_digest_size
    THEN Raised("DecryptionException", "Missing data")
    ELSE NoResult

_assert_decrypt_length(d) ==
    IF Len(d) < Len(PREFIX) + (SALT_LEN \div 8) + HASH_digest_size
    THEN Raised("DecryptionException", "Missing data")
    ELSE NoResult

\* mutant: only the two scheme bytes of the prefix are compared
_assert_prefix_short(d) ==
    IF PyTo(d, 2) # PyTo(PREFIX, 2)
    THEN Raised("DecryptionException", "Bad data format")
    ELSE NoResult

_assert_prefix(d) ==
    IF PyTo(d, Len(PREFIX)) # PREFIX
    THEN Raised("DecryptionException", "Bad data format")
    ELSE NoResult

_hash(d) == SHA256_digest(d)

\* mutant: only the first half of the tags is compared
_assert_hmac_half(h, h2) ==
    IF _hash(PyTo(h, HASH_digest_size \div 2)) # _hash(PyTo(h2, HASH_digest_size \div 2))
    THEN Raised("DecryptionException", "Bad password or corrupt / modified data")
    ELSE NoResult

\* mutant: the recomputed tag is compared with itself
_assert_hmac_self(h, h2) ==
    IF _hash(h2) # _hash(h2)
    THEN Raised("DecryptionException", "Bad password or corrupt / modified data")
    ELSE NoResult

\* mutant: the comparison is left out
_assert_hmac_skipped(h, h2) == NoResult

_assert_hmac(h, h2) ==
    IF _hash(h) # _hash(h2)
    THEN Raised("DecryptionException", "Bad password or corrupt / modified data")
    ELSE NoResult

\* mutant: the password is not checked
_expand_key_unchecked(s, pw) ==
    IF s = <<>> THEN [err |-> Raised("ValueError", "Missing salt"), key |-> <<>>]
    ELSE [err |-> NoResult,
          key |-> PBKDF2(encode_utf8(pw), s, AES_KEY_LEN \div 8, EXPANSION_COUNT)]

_expand_key(s, pw) ==
    IF s = <<>> THEN [err |-> Raised("ValueError", "Missing salt"), key |-> <<>>]
    ELSE IF pw = <<>>
         THEN [err |-> Raised("ValueError", "Missing password"), key |-> <<>>]
    ELSE [err |-> NoResult,
          key |-> PBKDF2(encode_utf8(pw), s, AES_KEY_LEN \div 8, EXPANSION_COUNT)]

\* the byte strings _randbytes(n) is drawn from in the model
_randbytes(n) == {[i \in 1..n |-> (s * (37 * i + 1)) % 256] : s \in 0..(NumSalts - 1)}

(* ---------------- the expressions of encrypt and decrypt -------------- *)
\* mutant: the nonce is the other half of the salt
nonce_tail(s) == PyFrom(s, HALF_BLOCK \div 8)

\* salt[:HALF_BLOCK//8], lines 38 and 64
nonce(s) == PyTo(s, HALF_BLOCK \div 8)

\* mutant: the tag is put before the ciphertext
encrypt_return_swapped(s, e, h) == PREFIX \o s \o h \o e

\* PREFIX + salt + encrypted + hmac, line 42
encrypt_return(s, e, h) == PREFIX \o s \o e \o h

\* raw = data[len(PREFIX):], line 58
decrypt_raw(d) == PyFrom(d, Len(PREFIX))

\* raw[:SALT_LEN//8], line 59
decrypt_salt(d) == PyTo(decrypt_raw(d), SALT_LEN \div 8)

\* raw[-HASH.digest_size:], line 61
decrypt_hmac(d) == PyFrom(decrypt_raw(d), 0 - HASH_digest_size)

\* data[:-HASH.digest_size], line 62
decrypt_signed(d) == PyTo(d, 0 - HASH_digest_size)

\* mutant: the tag is not cut off the ciphertext
decrypt_ciphertext_with_tag(d) == PyFrom(decrypt_raw(d), SALT_LEN \div 8)

\* raw[SALT_LEN//8:-HASH.digest_size], line 66
decrypt_ciphertext(d) == PySlice(decrypt_raw(d), SALT_LEN \div 8, 0 - HASH_digest_size)

(* ---------------- inputs of the model --------------------------------- *)
\* "", "pw", "px", and a one-character non-ASCII password
Passwords == {<<>>, <<112, 119>>, <<112, 120>>, <<233>>}

Pattern(n, a, b) == [i \in 1..n |-> (a + b * i) % 256]

HelloWorld == <<104, 101, 108, 108, 111, 32, 119, 111, 114, 108, 100>>

\* short messages, b"hello world", and messages around the length limit
Plaintexts ==
    {Pattern(n, 0, 0) : n \in 0..MaxLen}
    \cup {Pattern(n, 200, 29) : n \in 1..MaxLen}
    \cup {HelloWorld}
    \cup {Pattern(n, 170, 1) : n \in (2^HALF_BLOCK - 1)..(2^HALF_BLOCK + 1)}

\* what the caller does to the envelope before handing it to decrypt
NoTamper == [kind |-> "none", pos |-> 0, bit |-> 0]

Tamperings(E) ==
    {NoTamper}
    \cup {[kind |-> "prefix", pos |-> n, bit |-> 0] : n \in {10, Len(E)}}
    \cup {[kind |-> "trunc", pos |-> n, bit |-> 0] :
            n \in 0..Min(Len(E) - 1, MinEnvelope + MaxLen)}
    \cup (IF Len(E) <= MinEnvelope + MaxLen
          THEN {[kind |-> "flip", pos |-> p, bit |-> b] : p \in 1..Len(E), b \in 0..7}
          ELSE {})

Tampered(E, t) ==
    IF t.kind = "flip" THEN [E EXCEPT ![t.pos] = Xor8(@, 2^t.bit)]
    ELSE IF t.kind = "trunc" THEN PyTo(E, t.pos)
    ELSE IF t.kind = "prefix" THEN PyTo(<<88, 88, 88, 88>> \o PyFrom(E, 4), t.pos)
    ELSE E

(* ---------------- state machine --------------------------------------- *)
Init ==
    /\ pc = "idle"
    /\ op = "none"
    /\ password = <<>>
    /\ data = <<>>
    /\ salt = <<>>
    /\ key = <<>>
    /\ encrypted = <<>>
    /\ hmac = <<>>
    /\ hmac2 = <<>>
    /\ counters = <<>>
    /\ result = NoResult
    /\ steps = <<>>
    /\ envelope = <<>>
    /\ encPassword = <<>>
    /\ encData = <<>>
    /\ encCounters = <<>>
    /\ tamper = NoTamper

\* a caller invokes encrypt(password, data)
CallEncrypt ==
    /\ pc = "idle"
    /\ \E p \in Passwords, m \in Plaintexts :
          /\ password' = p
          /\ data' = m
          /\ encPassword' = p
          /\ encData' = m
    /\ envelope' = <<>>
    /\ encCounters' = <<>>
    /\ pc' = "e_length"
    /\ op' = "encrypt"
    /\ tamper' = NoTamper
    /\ UNCHANGED <<locals, result, steps>>

\* line 35
EncAssertLength ==
    /\ pc = "e_length"
    /\ LET r == _assert_encrypt_length(data)
       IN IF r.kind = "error"
          THEN /\ result' = r
               /\ pc' = "done"
               /\ steps' = steps
          ELSE /\ result' = result
               /\ pc' = "e_salt"
               /\ steps' = Append(steps, "length")
    /\ UNCHANGED <<op, password, data, locals, history, tamper>>

\* line 36
EncDrawSalt ==
    /\ pc = "e_salt"
    /\ \E s \in _randbytes(SALT_LEN \div 8) : salt' = s
    /\ pc' = "e_key"
    /\ steps' = Append(steps, "salt")
    /\ UNCHANGED <<op, password, data, key, encrypted, hmac, hmac2, counters, result, history, tamper>>

\* line 37
EncExpandKey ==
    /\ pc = "e_key"
    /\ LET r == _expand_key(salt, password)
       IN IF r.err.kind = "error"
          THEN /\ result' = r.err
               /\ pc' = "done"
               /\ key' = key
               /\ steps' = steps
          ELSE /\ result' = result
               /\ pc' = "e_cipher"
               /\ key' = r.key
               /\ steps' = Append(steps, "key")
    /\ UNCHANGED <<op, password, data, salt, encrypted, hmac, hmac2, counters, history, tamper>>

\* lines 38-40
EncCipher ==
    /\ pc = "e_cipher"
    /\ counters' = CounterBlocks(HALF_BLOCK, nonce(salt), Len(data))
    /\ encCounters' = CounterBlocks(HALF_BLOCK, nonce(salt), Len(data))
    /\ encrypted' = CTR_crypt(key, HALF_BLOCK, nonce(salt), data)
    /\ pc' = "e_hmac"
    /\ steps' = Append(steps, "cipher")
    /\ UNCHANGED <<op, password, data, salt, key, hmac, hmac2, result, envelope, encPassword, encData, tamper>>

\* lines 41-42
EncReturn ==
    /\ pc = "e_hmac"
    /\ LET h == HMAC_digest(key, PREFIX \o salt \o encrypted)
       IN /\ hmac' = h
          /\ result' = Returned(encrypt_return(salt, encrypted, h))
          /\ envelope' = encrypt_return(salt, encrypted, h)
    /\ pc' = "done"
    /\ steps' = Append(steps, "hmac")
    /\ UNCHANGED <<op, password, data, salt, key, encrypted, hmac2, counters, encPassword, encData, encCounters, tamper>>

\* a caller invokes decrypt(password, data) on the last envelope, possibly
\* truncated or modified
CallDecrypt ==
    /\ pc = "idle"
    /\ envelope # <<>>
    /\ \E p \in Passwords, t \in Tamperings(envelope) :
          /\ t.kind = "flip" => p = encPassword
          /\ password' = p
          /\ tamper' = t
          /\ data' = Tampered(envelope, t)
    /\ pc' = "d_length"
    /\ op' = "decrypt"
    /\ UNCHANGED <<locals, result, steps, history>>

\* line 56
DecAssertLength ==
    /\ pc = "d_length"
    /\ LET r == _assert_decrypt_length(data)
       IN IF r.kind = "error"
          THEN /\ result' = r
               /\ pc' = "done"
               /\ steps' = steps
          ELSE /\ result' = result
               /\ pc' = "d_prefix"
               /\ steps' = Append(steps, "length")
    /\ UNCHANGED <<op, password, data, locals, history, tamper>>

\* line 57
DecAssertPrefix ==
    /\ pc = "d_prefix"
    /\ LET r == _assert_prefix(data)
       IN IF r.kind = "error"
          THEN /\ result' = r
               /\ pc' = "done"
               /\ steps' = steps
          ELSE /\ result' = result
               /\ pc' = "d_key"
               /\ steps' = Append(steps, "prefix")
    /\ UNCHANGED <<op, password, data, locals, history, tamper>>

\* lines 58-60
DecExpandKey ==
    /\ pc = "d_key"
    /\ LET s == decrypt_salt(data)
           r == _expand_key(s, password)
       IN /\ salt' = s
          /\ IF r.err.kind = "error"
             THEN /\ result' = r.err
                  /\ pc' = "done"
                  /\ key' = key
                  /\ steps' = steps
             ELSE /\ result' = result
                  /\ pc' = "d_hmac"
                  /\ key' = r.key
                  /\ steps' = Append(steps, "key")
    /\ UNCHANGED <<op, password, data, encrypted, hmac, hmac2, counters, history, tamper>>

\* lines 61-63
DecAssertHmac ==
    /\ pc = "d_hmac"
    /\ LET h == decrypt_hmac(data)
           h2 == HMAC_digest(key, decrypt_signed(data))
           r == _assert_hmac(h, h2)
       IN /\ hmac' = h
          /\ hmac2' = h2
          /\ IF r.kind = "error"
             THEN /\ result' = r
                  /\ pc' = "done"
                  /\ steps' = steps
             ELSE /\ result' = result
                  /\ pc' = "d_cipher"
                  /\ steps' = Append(steps, "hmac")
    /\ UNCHANGED <<op, password, data, salt, key, encrypted, counters, history, tamper>>

\* lines 64-66
DecCipher ==
    /\ pc = "d_cipher"
    /\ LET ct == decrypt_ciphertext(data)
       IN /\ encrypted' = ct
          /\ counters' = CounterBlocks(HALF_BLOCK, nonce(salt), Len(ct))
          /\ result' = Returned(CTR_crypt(key, HALF_BLOCK, nonce(salt), ct))
    /\ pc' = "done"
    /\ steps' = Append(steps, "cipher")
    /\ UNCHANGED <<op, password, data, salt, key, hmac, hmac2, history, tamper>>

\* the call is over; its locals go away
Finish ==
    /\ pc = "done"
    /\ pc' = "idle"
    /\ op' = "none"
    /\ password' = <<>>
    /\ data' = <<>>
    /\ salt' = <<>>
    /\ key' = <<>>
    /\ encrypted' = <<>>
    /\ hmac' = <<>>
    /\ hmac2' = <<>>
    /\ counters' = <<>>
    /\ result' = NoResult
    /\ steps' = <<>>
    /\ tamper' = NoTamper
    /\ UNCHANGED history

Next ==
    \/ CallEncrypt
    \/ EncAssertLength
    \/ EncDrawSalt
    \/ EncExpandKey
    \/ EncCipher
    \/ EncReturn
    \/ CallDecrypt
    \/ DecAssertLength
    \/ DecAssertPrefix
    \/ DecExpandKey
    \/ DecAssertHmac
    \/ DecCipher
    \/ Finish

Spec == Init /\ [][Next]_vars

(* ====================== properties ==================================== *)
BadFormat == Raised("DecryptionException", "Bad data format")
MissingData == Raised("DecryptionException", "Missing data")
BadPasswordOrCorrupt ==
    Raised("DecryptionException", "Bad password or corrupt / modified data")
MessageTooLong == Raised("EncryptionException", "Message too long")

EncryptDone == op = "encrypt" /\ pc = "done"
DecryptDone == op = "decrypt" /\ pc = "done"

\* C1: round trip. decrypt(p, encrypt(p, m)) returns m for every non-empty
\* password p, every m shorter than 2**HALF_BLOCK and every salt drawn.
C1_RoundTrip ==
    (/\ DecryptDone
     /\ tamper = NoTamper
     /\ password = encPassword
     /\ password # <<>>
     /\ Len(encData) < 2^HALF_BLOCK)
    => result = Returned(encData)

C1_Witness ==
    /\ DecryptDone
    /\ tamper = NoTamper
    /\ password = encPassword
    /\ encData = HelloWorld
    /\ result = Returned(HelloWorld)

\* C2 (as claimed): flipping any single bit anywhere in the envelope, the
\* format prefix included, makes decrypt(p, .) fail with
\* bad-password-or-corrupt.
C2_AnyFlipIsBadPassword ==
    (DecryptDone /\ tamper.kind = "flip" /\ password = encPassword /\ password # <<>>)
    => result = BadPasswordOrCorrupt

\* C2 (amended): a single flipped bit in the salt, the ciphertext or the tag
\* makes decrypt(p, .) fail with bad-password-or-corrupt; a flipped bit in the
\* 4-byte format prefix makes it fail with bad-format; no plaintext either way.
C2_TamperDetected ==
    (DecryptDone /\ tamper.kind = "flip" /\ password = encPassword /\ password # <<>>)
    => /\ result.value = <<>>
       /\ tamper.pos > 4 => result = BadPasswordOrCorrupt
       /\ tamper.pos <= 4 => result = BadFormat

C2_Witness ==
    /\ DecryptDone
    /\ tamper.kind = "flip"
    /\ tamper.pos = Len(data)
    /\ Len(encData) = MaxLen
    /\ result = BadPasswordOrCorrupt

\* C3: wrong password. decrypt(p2, encrypt(p1, m)) with non-empty p1 # p2
\* fails with the bad-password-or-corrupt condition and returns no plaintext.
C3_WrongPassword ==
    (/\ DecryptDone
     /\ tamper = NoTamper
     /\ password # <<>>
     /\ encPassword # <<>>
     /\ password # encPassword
     /\ Len(encData) < 2^HALF_BLOCK)
    => result = BadPasswordOrCorrupt /\ result.value = <<>>

C3_Witness ==
    /\ DecryptDone
    /\ tamper = NoTamper
    /\ password = <<112, 120>>
    /\ encPassword = <<112, 119>>
    /\ encData = HelloWorld
    /\ result = BadPasswordOrCorrupt

\* C4: length boundary. A message of 2**HALF_BLOCK - 1 bytes encrypts; every
\* message of 2**HALF_BLOCK bytes or more fails with message-too-long before a
\* salt is drawn or an envelope produced.
C4_LengthBoundary ==
    /\ (op = "encrypt" /\ pc # "e_length" /\ Len(data) >= 2^HALF_BLOCK)
          => result = MessageTooLong /\ salt = <<>> /\ envelope = <<>>
    /\ (EncryptDone /\ Len(data) = 2^HALF_BLOCK - 1 /\ password # <<>>)
          => result.kind = "ok"

\* C5: envelope layout. encrypt returns PREFIX || salt || ciphertext || tag:
\* a 4-byte prefix, a 16-byte salt, a ciphertext as long as the message and
\* the 32-byte HMAC under the derived key of everything before it; 52 bytes
\* for the empty message and 63 for an 11-byte one.
C5_EnvelopeLayout ==
    (EncryptDone /\ result.kind = "ok")
    => LET E == result.value
           n == Len(data)
       IN /\ Len(E) = 4 + 16 + n + 32
          /\ SubSeq(E, 1, 4) = <<115, 99, 0, 0>>
          /\ SubSeq(E, 5, 20) = salt
          /\ salt \in _randbytes(16)
          /\ SubSeq(E, 21, 20 + n) = encrypted
          /\ Len(encrypted) = n
          /\ key = _expand_key(salt, password).key
          /\ Len(key) = 32
          /\ SubSeq(E, 21 + n, Len(E)) = HMAC_digest(key, SubSeq(E, 1, 20 + n))
          /\ n = 0 => Len(E) = 52
          /\ n = 11 => Len(E) = 63
          /\ E = envelope

C5_Witness ==
    /\ EncryptDone
    /\ result.kind = "ok"
    /\ data = HelloWorld
    /\ Len(result.value) = 63

\* C6: truncation. decrypt fails with missing-data exactly when the input is
\* shorter than 4 + 16 + 32 = 52 bytes; the check comes first, whatever the
\* leading bytes and the password are.
C6_Truncation ==
    /\ DecryptDone => (result = MissingData <=> Len(data) < 52)
    /\ (op = "decrypt" /\ pc # "d_length" /\ Len(data) < 52)
          => result = MissingData /\ steps = <<>> /\ pc = "done"

C6_Witness ==
    /\ DecryptDone
    /\ password = <<>>
    /\ tamper.kind = "prefix"
    /\ Len(data) = 10
    /\ result = MissingData

\* C7: format mismatch. An input of at least 52 bytes whose first 4 bytes are
\* not the prefix fails with bad-format right after the length check, before
\* the key is derived, whatever the password and the tag are.
C7_FormatMismatch ==
    (DecryptDone /\ Len(data) >= MinEnvelope /\ SubSeq(data, 1, 4) # PREFIX)
    => /\ result = BadFormat
       /\ steps = <<"length">>
       /\ key = <<>>
       /\ hmac2 = <<>>

C7_Witness ==
    /\ DecryptDone
    /\ password = <<>>
    /\ tamper.kind = "prefix"
    /\ Len(data) >= MinEnvelope
    /\ result = BadFormat

\* C8: empty password. _expand_key raises ValueError for an empty password or
\* an empty salt; encrypt("", m) raises it for every m below the bound and
\* returns no envelope; decrypt("", E) raises it, not bad-password-or-corrupt,
\* once E passed the length and prefix checks.
C8_EmptyPassword ==
    /\ (EncryptDone /\ password = <<>> /\ Len(data) < 2^HALF_BLOCK)
          => result = Raised("ValueError", "Missing password") /\ envelope = <<>>
    /\ (DecryptDone /\ password = <<>> /\ Len(data) >= MinEnvelope
          /\ SubSeq(data, 1, 4) = PREFIX)
          => result = Raised("ValueError", "Missing password")
    /\ pc \in {"e_key", "d_key"} =>
          /\ _expand_key(<<>>, password).err.exc = "ValueError"
          /\ LET s == IF op = "encrypt" THEN salt ELSE decrypt_salt(data)
             IN /\ Len(s) = 16
                /\ (_expand_key(s, password).err.exc = "ValueError") <=> (password = <<>>)

C8_Witness ==
    /\ DecryptDone
    /\ password = <<>>
    /\ tamper = NoTamper
    /\ result = Raised("ValueError", "Missing password")
    /\ steps = <<"length", "prefix">>

\* C9: verify then decrypt. decrypt reaches the cipher only after the length
\* check, the prefix check, the key derivation and the tag comparison
\* succeeded, in that order; when one of them fails decrypt ends in that
\* error and no plaintext is produced.
C9_VerifyThenDecrypt ==
    op = "decrypt" =>
    /\ (pc = "d_cipher" \/ (DecryptDone /\ result.kind = "ok"))
          => /\ SubSeq(steps, 1, 4) = <<"length", "prefix", "key", "hmac">>
             /\ Len(data) >= MinEnvelope
             /\ SubSeq(data, 1, 4) = PREFIX
             /\ password # <<>>
             /\ SubSeq(data, Len(data) - 31, Len(data))
                   = HMAC_digest(key, SubSeq(data, 1, Len(data) - 32))
    /\ result.kind = "error"
          => /\ pc = "done"
             /\ result.value = <<>>
             /\ encrypted = <<>>
             /\ counters = <<>>
             /\ Len(steps) < 4
    /\ result.kind = "ok" => steps = <<"length", "prefix", "key", "hmac", "cipher">>
    /\ \A i \in 1..Len(steps) :
          steps[i] = <<"length", "prefix", "key", "hmac", "cipher">>[i]

C9_Witness ==
    /\ DecryptDone
    /\ result.kind = "ok"
    /\ steps = <<"length", "prefix", "key", "hmac", "cipher">>
    /\ Len(result.value) = MaxLen

\* the counter blocks are the nonce followed by first, first + 1, ...
CountersFrom(first) ==
    \A b \in 1..Len(counters) :
        /\ counters[b].prefix = SubSeq(salt, 1, HALF_BLOCK \div 8)
        /\ counters[b].ctr = first + (b - 1)

\* the cipher statement of the running call completed
CipherRan == \E i \in 1..Len(steps) : steps[i] = "cipher"

\* C10 (as claimed): each counter block is salt[:HALF_BLOCK//8] followed by a
\* counter that is zero for the first block and goes up by one per block, the
\* same in encrypt and decrypt.
C10_CounterFromZero ==
    CipherRan => CountersFrom(0)

\* C10 (amended): each counter block is salt[:HALF_BLOCK//8] followed by a
\* counter that is one for the first block (Counter.new's default initial
\* value) and goes up by one per block; decrypt of an envelope builds the same
\* counter blocks as the encrypt that made it.
C10_CounterFromOne ==
    /\ CipherRan =>
          /\ CountersFrom(1)
          /\ Len(counters) = (Len(encrypted) + AES_block_size - 1) \div AES_block_size
    /\ (DecryptDone /\ result.kind = "ok" /\ tamper = NoTamper) => counters = encCounters

C10_Witness ==
    /\ DecryptDone
    /\ result.kind = "ok"
    /\ tamper = NoTamper
    /\ Len(counters) >= 3
    /\ counters = encCounters

====
